---- MODULE Spec2Model ----
(***************************************************************************)
(* Virtual pet: the quiet-time gate of src/src/quietTime.ts (a rolling     *)
(* window of active minutes and a cooldown deadline kept in localStorage)  *)
(* and the pet lifecycle of src/src/App.tsx (idle -> drowsy -> sleeping -> *)
(* auto-wake, need decay, gated user actions).                             *)
(*                                                                         *)
(* Time is Date.now() in milliseconds.  Every handler runs at one instant  *)
(* t >= clock chosen by the environment and leaves clock = t; all calls of *)
(* Date.now() inside one handler return t.  doAction and tryWake are the   *)
(* handlers themselves: they can run whether or not their button is shown  *)
(* or enabled.  A handler's step includes the renders and effects that its *)
(* state updates cause; SpecRender, SpecReload and SpecPage take the tick *)
(* one commit at a time instead, and SpecPage clicks only the buttons that *)
(* are rendered and enabled.                                               *)
(***************************************************************************)
EXTENDS Integers, Sequences, FiniteSets, TLC

\* ------------------------------------------------------------------------
\* Program constants
\* ------------------------------------------------------------------------
HOUR_MINUTES == 60
QUIET_MIN_PER_HOUR == 20
ACTIVE_PLAY_LIMIT == HOUR_MINUTES - QUIET_MIN_PER_HOUR
QUIET_BLOCK_MIN == 20
MINUTE_MS == 60000

IDLE_TO_DROWSY_MS == 8 * 60 * 1000
DROWSY_TO_SLEEP_MS == 2 * 60 * 1000
AUTO_WAKE_MIN_MS == 5 * 60 * 1000
AUTO_WAKE_MAX_MS == 12 * 60 * 1000
TICK_MS == 1000
DECAY_MS == 15000
ACTION_DELTA == 15
INITIAL_NEED == 70

\* JavaScript null, as a number no timestamp equals
Null == 0 - 1

\* JavaScript NaN (what parseInt gives for text that starts with no number),
\* as a number no timestamp equals
NaN == 0 - 2

\* JavaScript truthiness of a number | null (0, NaN and null are falsy)
Truthy(v) == v # Null /\ v # NaN /\ v # 0

Kinds == {"FEED", "GROOM", "PLAY", "CUDDLE"}

\* ------------------------------------------------------------------------
\* Bounds of the explored behaviours
\* ------------------------------------------------------------------------
\* last wall-clock minute an event may happen in
MaxMinute == 62
\* last minute of an event over a store written by somebody else
MaxStoredMinute == 2
\* last second of the idle (timer only) scenario
MaxIdleSecond == 1400
\* number of decay periods and of user actions in the needs scenario
MaxDecays == 72
MaxActions == 3

VARIABLES
  clock,         \* Date.now() at the latest event
  now,           \* React state `now` (time of the latest 1 s tick)
  lastInput,     \* lastInputRef.current
  petState,      \* React state petState
  needs,         \* React state needs
  sleepUntil,    \* React state sleepUntil (Null or a timestamp)
  quietUntil,    \* React state quietUntil (Null or a timestamp)
  decayAt,       \* time the 15 s decay interval fires next
  localStorage,  \* the two persisted items
  ret,           \* what the latest operation was and what it returned
  acted,         \* number of user actions so far, where a scenario counts them
  effects        \* the effects React has still to run after the latest commit

vars == <<clock, now, lastInput, petState, needs, sleepUntil, quietUntil,
          decayAt, localStorage, ret, acted, effects>>

appVars == <<now, lastInput, petState, needs, sleepUntil, quietUntil, decayAt>>

\* ------------------------------------------------------------------------
\* quietTime.ts
\* ------------------------------------------------------------------------
\* a stored item: absent, or the text written by saveMinutes / setQuietUntil
Absent == [kind |-> "absent", val |-> <<>>]
\* JSON.stringify of a number[]
StoredMinutes(mins) == [kind |-> "array", val |-> mins]
\* String(ts)
StoredNumber(ts) == [kind |-> "num", val |-> <<ts>>]
\* text written by somebody else: text that is neither JSON nor a number
\* (such as oops), and JSON that is neither an array nor a number (such as {})
Garbled == [kind |-> "text", val |-> <<>>]
OtherJson == [kind |-> "json", val |-> <<>>]

nowMinute(t) == t \div MINUTE_MS

\* [] for a missing item and for text JSON.parse rejects; for JSON that is
\* not an array the parsed value is returned as it is (see filterThrows)
loadMinutes(ls) ==
  LET raw == ls.actionMinutes
  IN IF raw.kind = "array" THEN raw.val ELSE <<>>

\* mins.filter is not a function: what loadMinutes returned is not an array
filterThrows(ls) == ls.actionMinutes.kind = "json"

saveMinutes(ls, mins) == [ls EXCEPT !.actionMinutes = StoredMinutes(mins)]

getQuietUntil(ls) ==
  LET v == ls.quietUntil
  IN IF v.kind = "num" THEN v.val[1]
     ELSE IF v.kind = "absent" THEN Null ELSE NaN

\* variant: removing the deadline removes the window too
setQuietUntilClears(ls, ts) ==
  IF ts = Null THEN [ls EXCEPT !.quietUntil = Absent, !.actionMinutes = Absent]
  ELSE [ls EXCEPT !.quietUntil = StoredNumber(ts)]

setQuietUntil(ls, ts) ==
  IF ts = Null THEN [ls EXCEPT !.quietUntil = Absent]
  ELSE [ls EXCEPT !.quietUntil = StoredNumber(ts)]

includes(mins, m) == \E i \in 1..Len(mins) : mins[i] = m

\* variant: the cutoff minute itself is dropped
KeepAfter(m, cutoff) == m > cutoff
\* variant: nothing is purged
KeepAll(m, cutoff) == TRUE
Keep(m, cutoff) == m >= cutoff

purgeOld(mins, ref) ==
  LET cutoff == ref - (HOUR_MINUTES - 1)
  IN SelectSeq(mins, LAMBDA m : Keep(m, cutoff))

\* variant: the minute is pushed without looking for it
PushAlways(mins, m) == Append(mins, m)
\* minutes.push(m) unless the minute is already there
PushMinute(mins, m) == IF ~includes(mins, m) THEN Append(mins, m) ELSE mins

\* variant: the threshold must be exceeded
StartsQuietAbove(active, q, t) ==
  active > ACTIVE_PLAY_LIMIT /\ (~Truthy(q) \/ t >= q)
\* variant: a running cooldown does not stop a new one
StartsQuietAgain(active, q, t) == active >= ACTIVE_PLAY_LIMIT
\* variant: the threshold is the quiet minutes of an hour
StartsQuietEarly(active, q, t) ==
  active >= QUIET_MIN_PER_HOUR /\ (~Truthy(q) \/ t >= q)
\* the guard of line 51
StartsQuiet(active, q, t) ==
  active >= ACTIVE_PLAY_LIMIT /\ (~Truthy(q) \/ t >= q)

\* variant: the cooldown lasts the whole hour
NewDeadlineHour(t) == t + HOUR_MINUTES * 60 * 1000
\* the deadline of line 52
NewDeadline(t) == t + QUIET_BLOCK_MIN * 60 * 1000

\* variant: the deadline itself still counts as quiet
ExpiredAfter(q, t) == t > q
\* the guard of lines 57 and 68
Expired(q, t) == t >= q

\* variant: the returned deadline is not reset when the stored one is removed
registerActionStale(ls, t) ==
  LET m == nowMinute(t)
      minutes == PushMinute(purgeOld(loadMinutes(ls), m), m)
      ls1 == saveMinutes(ls, minutes)
      active == Len(minutes)
      q0 == getQuietUntil(ls1)
      starts == StartsQuiet(active, q0, t)
      q1 == IF starts THEN NewDeadline(t) ELSE q0
      ls2 == IF starts THEN setQuietUntil(ls1, q1) ELSE ls1
      clears == Truthy(q1) /\ Expired(q1, t)
      ls3 == IF clears THEN setQuietUntil(ls2, Null) ELSE ls2
  IN [ls |-> ls3, quietUntil |-> q1, activeInWindow |-> active, threw |-> FALSE]

registerAction(ls, t) ==
  LET m == nowMinute(t)
      minutes == PushMinute(purgeOld(loadMinutes(ls), m), m)
      ls1 == saveMinutes(ls, minutes)
      active == Len(minutes)
      q0 == getQuietUntil(ls1)
      starts == StartsQuiet(active, q0, t)
      q1 == IF starts THEN NewDeadline(t) ELSE q0
      ls2 == IF starts THEN setQuietUntil(ls1, q1) ELSE ls1
      clears == Truthy(q1) /\ Expired(q1, t)
      q2 == IF clears THEN Null ELSE q1
      ls3 == IF clears THEN setQuietUntil(ls2, Null) ELSE ls2
  IN IF filterThrows(ls)
     THEN [ls |-> ls, quietUntil |-> Null, activeInWindow |-> 0, threw |-> TRUE]
     ELSE [ls |-> ls3, quietUntil |-> q2, activeInWindow |-> active,
           threw |-> FALSE]

\* variant: an expired deadline is reported but left in the store
isQuietActiveKeep(ls, t) ==
  LET until == getQuietUntil(ls)
  IN IF ~Truthy(until) \/ t >= until THEN [ls |-> ls, active |-> FALSE, until |-> Null]
     ELSE [ls |-> ls, active |-> TRUE, until |-> until]

isQuietActive(ls, t) ==
  LET until == getQuietUntil(ls)
  IN IF ~Truthy(until) THEN [ls |-> ls, active |-> FALSE, until |-> Null]
     ELSE IF Expired(until, t)
          THEN [ls |-> setQuietUntil(ls, Null), active |-> FALSE, until |-> Null]
          ELSE [ls |-> ls, active |-> TRUE, until |-> until]

\* ------------------------------------------------------------------------
\* The latest operation and its result
\* ------------------------------------------------------------------------
\* threw tells that the operation ended in an exception
Ret(op, kind, t, blocked, q, active) ==
  [op |-> op, kind |-> kind, t |-> t, blocked |-> blocked,
   quietUntil |-> q, activeInWindow |-> active,
   before |-> getQuietUntil(localStorage),
   sizeBefore |-> Len(loadMinutes(localStorage)),
   had |-> includes(loadMinutes(localStorage), nowMinute(t)),
   from |-> petState, threw |-> FALSE]

\* no effect is waiting: the latest commit's effects have all run
NoEffects == [idle |-> FALSE, wake |-> FALSE]

\* ------------------------------------------------------------------------
\* Initial state: the page is mounted at time 0 over an empty localStorage
\* ------------------------------------------------------------------------
Init ==
  /\ clock = 0
  /\ now = 0
  /\ lastInput = 0
  /\ petState = "AWAKE"
  /\ needs = [hunger |-> INITIAL_NEED, cleanliness |-> INITIAL_NEED,
              playfulness |-> INITIAL_NEED, affection |-> INITIAL_NEED]
  /\ sleepUntil = Null
  /\ localStorage = [actionMinutes |-> Absent, quietUntil |-> Absent]
  /\ quietUntil = isQuietActive(localStorage, 0).until
  /\ decayAt = DECAY_MS
  /\ ret = [op |-> "mount", kind |-> "none", t |-> 0, blocked |-> FALSE,
            quietUntil |-> Null, activeInWindow |-> 0, before |-> Null,
            sizeBefore |-> 0, had |-> FALSE, from |-> "AWAKE", threw |-> FALSE]
  /\ acted = 0
  /\ effects = NoEffects

\* ------------------------------------------------------------------------
\* Direct calls of the two exported functions
\* ------------------------------------------------------------------------
RegisterActionCall(t) ==
  LET r == registerAction(localStorage, t)
  IN /\ clock' = t
     /\ localStorage' = r.ls
     /\ ret' = [Ret("registerAction", "none", t, FALSE, r.quietUntil,
                    r.activeInWindow) EXCEPT !.threw = r.threw]
     /\ UNCHANGED appVars

IsQuietActiveCall(t) ==
  LET r == isQuietActive(localStorage, t)
  IN /\ clock' = t
     /\ localStorage' = r.ls
     /\ ret' = Ret("isQuietActive", "none", t, r.active, r.until, 0)
     /\ UNCHANGED appVars

\* ------------------------------------------------------------------------
\* App.tsx: effects
\* ------------------------------------------------------------------------
Min(a, b) == IF a < b THEN a ELSE b
Max(a, b) == IF a > b THEN a ELSE b
\* variant: only the upper limit is applied
clampUpper(n) == Min(100, n)
clamp(n) == Max(0, Min(100, n))

\* Math.random() is n / RandomDen for a numerator n of Randoms
RandomDen == 1000
Randoms == {0, 500, RandomDen - 1}
\* variant: the span is drawn below the maximum instead of below the width
SpanWide(n) == AUTO_WAKE_MIN_MS + ((n * AUTO_WAKE_MAX_MS) \div RandomDen)
Span(n) == AUTO_WAKE_MIN_MS + ((n * (AUTO_WAKE_MAX_MS - AUTO_WAKE_MIN_MS)) \div RandomDen)

\* variant: the threshold must be exceeded
ToDrowsyAfter(ps, since) == ps = "AWAKE" /\ since > IDLE_TO_DROWSY_MS
\* variant: a pet in any state gets drowsy
ToDrowsyAny(ps, since) == since >= IDLE_TO_DROWSY_MS
ToDrowsy(ps, since) == ps = "AWAKE" /\ since >= IDLE_TO_DROWSY_MS
ToSleep(ps, since) ==
  since >= IDLE_TO_DROWSY_MS + DROWSY_TO_SLEEP_MS /\ ps # "SLEEPING"

\* idle check effect, run in a render whose state is s: the updates it queues
IdleCheck(s, li, t, n) ==
  LET since == s.now - li
  IN IF ToSleep(s.petState, since)
     THEN [s EXCEPT !.petState = "SLEEPING", !.sleepUntil = t + Span(n)]
     ELSE IF ToDrowsy(s.petState, since)
          THEN [s EXCEPT !.petState = "DROWSY"]
          ELSE s

\* variant: the deadline must have been passed
WakeDueAfter(sl, t) == Truthy(sl) /\ t > sl
WakeDue(sl, t) == Truthy(sl) /\ t >= sl

\* auto-wake effect of the same render (it reads the rendered sleepUntil),
\* queued after the updates q of the idle check
\* variant: the auto-wake leaves the deadline stored
AutoWakeKeepsDeadline(s, q, t) ==
  IF WakeDue(s.sleepUntil, t) THEN [q EXCEPT !.petState = "AWAKE"] ELSE q

AutoWake(s, q, t) ==
  IF WakeDue(s.sleepUntil, t)
  THEN [q EXCEPT !.petState = "AWAKE", !.sleepUntil = Null]
  ELSE q

\* the effects of one render: each runs when one of its dependencies changed
Pass(s, li, t, n, runIdle, runWake) ==
  LET q == IF runIdle THEN IdleCheck(s, li, t, n) ELSE s
  IN IF runWake THEN AutoWake(s, q, t) ELSE q

\* render, run the effects, render again, until nothing changes; resub tells
\* whether petState changed in some render (the decay interval is then
\* cleared and set again), drew whether Math.random() was called
\* variant: the effects run once and do not follow their own updates
SettleOnce(s, li, t, n, runIdle, runWake, resub, drew) ==
  LET s1 == Pass(s, li, t, n, runIdle, runWake)
  IN [state |-> s1, resub |-> resub \/ s1.petState # s.petState,
      drew |-> drew \/ (runIdle /\ ToSleep(s.petState, s.now - li))]

RECURSIVE Settle(_, _, _, _, _, _, _, _)
Settle(s, li, t, n, runIdle, runWake, resub, drew) ==
  LET s1 == Pass(s, li, t, n, runIdle, runWake)
      d1 == drew \/ (runIdle /\ ToSleep(s.petState, s.now - li))
  IN IF s1 = s THEN [state |-> s, resub |-> resub, drew |-> d1]
     ELSE Settle(s1, li, t, n, s1.petState # s.petState,
                 s1.sleepUntil # s.sleepUntil,
                 resub \/ s1.petState # s.petState, d1)

\* the effects that follow the commit of the React state s0 set by a handler
\* at time t: those whose dependencies differ from the previous render's
Effects(s0, li, t, n) ==
  Settle(s0, li, t, n,
         s0.now # now \/ s0.petState # petState,
         s0.now # now \/ s0.sleepUntil # sleepUntil,
         s0.petState # petState, FALSE)

\* the values Math.random() may return in these effects, if it is called
Draws(s0, li, t) == IF Effects(s0, li, t, 0).drew THEN Randoms ELSE {0}

Render(s0, li, t) ==
  \E n \in Draws(s0, li, t) :
    LET r == Effects(s0, li, t, n)
    IN /\ now' = r.state.now
       /\ petState' = r.state.petState
       /\ sleepUntil' = r.state.sleepUntil
       /\ decayAt' = IF r.resub THEN t + DECAY_MS ELSE decayAt

React == [now |-> now, petState |-> petState, sleepUntil |-> sleepUntil]

\* ------------------------------------------------------------------------
\* App.tsx: timers and handlers
\* ------------------------------------------------------------------------
\* the 1 s interval: setNow(Date.now()); setting the same value renders nothing
Tick(t) ==
  /\ t # now
  /\ clock' = t
  /\ Render([React EXCEPT !.now = t], lastInput, t)
  /\ ret' = Ret("tick", "none", t, FALSE, Null, 0)
  /\ UNCHANGED <<lastInput, needs, quietUntil, localStorage>>

Decayed(v) == clamp(v - 1)

\* variant: the needs decay only outside Quiet Time
DecayOutsideQuiet(ps) == (ps = "AWAKE" \/ ps = "DROWSY") /\ ~Truthy(quietUntil)
\* variant: the needs decay in every pet state
DecayAlways(ps) == TRUE
DecayApplies(ps) == ps = "AWAKE" \/ ps = "DROWSY"

\* the 15 s interval
Decay(t) ==
  /\ t >= decayAt
  /\ clock' = t
  /\ needs' = IF DecayApplies(petState)
              THEN [hunger |-> Decayed(needs.hunger),
                    cleanliness |-> Decayed(needs.cleanliness),
                    playfulness |-> Decayed(needs.playfulness),
                    affection |-> Decayed(needs.affection)]
              ELSE needs
  /\ decayAt' = t + DECAY_MS
  /\ ret' = Ret("decay", "none", t, FALSE, Null, 0)
  /\ UNCHANGED <<now, lastInput, petState, sleepUntil, quietUntil, localStorage>>

\* variant: any input wakes the pet
InputWakes(t) ==
  /\ clock' = t
  /\ lastInput' = t
  /\ petState' = "AWAKE"
  /\ sleepUntil' = Null
  /\ ret' = Ret("input", "none", t, FALSE, Null, 0)
  /\ UNCHANGED <<now, needs, quietUntil, decayAt, localStorage>>

\* pointerdown, keydown, visibilitychange to visible
Input(t) ==
  /\ clock' = t
  /\ lastInput' = t
  /\ ret' = Ret("input", "none", t, FALSE, Null, 0)
  /\ UNCHANGED <<now, petState, needs, sleepUntil, quietUntil, decayAt, localStorage>>

\* Quiet Time heartbeat
Heartbeat(t) ==
  LET r == isQuietActive(localStorage, t)
  IN /\ clock' = t
     /\ localStorage' = r.ls
     /\ quietUntil' = IF r.active THEN r.until ELSE Null
     /\ ret' = Ret("heartbeat", "none", t, r.active, r.until, 0)
     /\ UNCHANGED <<now, lastInput, petState, needs, sleepUntil, decayAt>>

NeedOf(kind) ==
  CASE kind = "FEED" -> "hunger"
    [] kind = "GROOM" -> "cleanliness"
    [] kind = "PLAY" -> "playfulness"
    [] kind = "CUDDLE" -> "affection"

\* variant: every need gets the delta
DeltaAll(kind, need) == ACTION_DELTA
Delta(kind, need) == IF NeedOf(kind) = need THEN ACTION_DELTA ELSE 0

Raised(n, kind) ==
  [hunger |-> clamp(n.hunger + Delta(kind, "hunger")),
   cleanliness |-> clamp(n.cleanliness + Delta(kind, "cleanliness")),
   playfulness |-> clamp(n.playfulness + Delta(kind, "playfulness")),
   affection |-> clamp(n.affection + Delta(kind, "affection"))]

\* variant: the gate admits everything
GateOpen(ls, t) == [ls |-> ls, active |-> FALSE, until |-> Null]
\* the Quiet Time gate of doAction and tryWake
Gate(ls, t) == isQuietActive(ls, t)

doActionBlocked(qt, kind, t) ==
  /\ clock' = t
  /\ localStorage' = qt.ls
  /\ quietUntil' = qt.until
  /\ ret' = Ret("doAction", kind, t, TRUE, qt.until, 0)
  /\ UNCHANGED <<now, lastInput, petState, needs, sleepUntil, decayAt>>

\* registerAction threw: the handler ends before any of its updates
doActionThrown(qt, kind, t) ==
  /\ clock' = t
  /\ localStorage' = qt.ls
  /\ ret' = [Ret("doAction", kind, t, FALSE, Null, 0) EXCEPT !.threw = TRUE]
  /\ UNCHANGED appVars

\* variant: the auto-wake deadline is left as it is
doActionKeepsDeadline(qt, kind, t) ==
  LET r == registerAction(qt.ls, t)
  IN /\ clock' = t
     /\ localStorage' = r.ls
     /\ quietUntil' = r.quietUntil
     /\ lastInput' = t
     /\ needs' = Raised(needs, kind)
     /\ Render([React EXCEPT !.petState = "AWAKE"], t, t)
     /\ ret' = Ret("doAction", kind, t, FALSE, r.quietUntil, r.activeInWindow)

doActionAdmitted(qt, kind, t) ==
  LET r == registerAction(qt.ls, t)
  IN IF r.threw THEN doActionThrown(qt, kind, t)
     ELSE /\ clock' = t
          /\ localStorage' = r.ls
          /\ quietUntil' = r.quietUntil
          /\ lastInput' = t
          /\ needs' = Raised(needs, kind)
          /\ Render([React EXCEPT !.petState = "AWAKE", !.sleepUntil = Null], t, t)
          /\ ret' = Ret("doAction", kind, t, FALSE, r.quietUntil, r.activeInWindow)

\* variant: the result of the gate is ignored
DoActionUngated(kind, t) == doActionAdmitted(Gate(localStorage, t), kind, t)

DoAction(kind, t) ==
  LET qt == Gate(localStorage, t)
  IN IF qt.active THEN doActionBlocked(qt, kind, t)
     ELSE doActionAdmitted(qt, kind, t)

tryWakeBlocked(qt, t) ==
  /\ clock' = t
  /\ localStorage' = qt.ls
  /\ quietUntil' = qt.until
  /\ ret' = Ret("tryWake", "none", t, TRUE, qt.until, 0)
  /\ UNCHANGED <<now, lastInput, petState, needs, sleepUntil, decayAt>>

\* variant: the wake is not registered as an action
tryWakeUncounted(qt, t) ==
  /\ clock' = t
  /\ localStorage' = qt.ls
  /\ lastInput' = t
  /\ Render([React EXCEPT !.petState = "AWAKE", !.sleepUntil = Null], t, t)
  /\ ret' = Ret("tryWake", "none", t, FALSE, Null, 0)
  /\ UNCHANGED <<needs, quietUntil>>

\* registerAction is the last statement: when it throws the updates before
\* it are already queued and lastInputRef is already set
tryWakeAdmitted(qt, t) ==
  LET r == registerAction(qt.ls, t)
  IN /\ clock' = t
     /\ localStorage' = r.ls
     /\ lastInput' = t
     /\ Render([React EXCEPT !.petState = "AWAKE", !.sleepUntil = Null], t, t)
     /\ ret' = [Ret("tryWake", "none", t, FALSE, r.quietUntil,
                    r.activeInWindow) EXCEPT !.threw = r.threw]
     /\ UNCHANGED <<needs, quietUntil>>

TryWake(t) ==
  LET qt == Gate(localStorage, t)
  IN IF qt.active THEN tryWakeBlocked(qt, t) ELSE tryWakeAdmitted(qt, t)

\* ------------------------------------------------------------------------
\* Event times
\* ------------------------------------------------------------------------
\* offsets inside a minute at which events happen: the first and the last
\* millisecond of the minute and the one after the first
Offsets == {0, 1, MINUTE_MS - 1}
OnGrid(t) == (t % MINUTE_MS) \in Offsets /\ nowMinute(t) <= MaxMinute

\* the same instant, a millisecond or a minute later, or a cooldown later
ShortSteps == {0, 1, MINUTE_MS - 1, MINUTE_MS}
LongSteps == {QUIET_BLOCK_MIN * MINUTE_MS}
CallTimes == {t \in {clock + d : d \in ShortSteps \cup LongSteps} : OnGrid(t)}
\* times in the minute of the latest event, or a cooldown later
PollTimes == {t \in CallTimes : nowMinute(t) = nowMinute(clock)
                                  \/ t - clock \in LongSteps}

\* ------------------------------------------------------------------------
\* The quiet-time module on its own: callers of the two exported functions
\* ------------------------------------------------------------------------
RegisterStep == UNCHANGED <<acted, effects>> /\ \E t \in CallTimes : RegisterActionCall(t)
IsQuietStep == UNCHANGED <<acted, effects>> /\ \E t \in PollTimes : IsQuietActiveCall(t)

NextQuiet == RegisterStep \/ IsQuietStep

SpecQuiet == Init /\ [][NextQuiet]_vars

\* ------------------------------------------------------------------------
\* The gate in the application: the user attempts an action or a wake at a
\* time of CallTimes; the 1 s tick and the heartbeat run after the attempt
\* ------------------------------------------------------------------------
\* the same instant, or a minute later once the tick of this instant has run
GateTimes == {clock} \cup {t \in {clock + MINUTE_MS} : now = clock /\ nowMinute(t) <= MaxMinute}

DoActionStep ==
  UNCHANGED <<acted, effects>> /\ \E kind \in Kinds, t \in GateTimes : DoAction(kind, t)
TryWakeStep == UNCHANGED <<acted, effects>> /\ \E t \in GateTimes : TryWake(t)
HeartbeatNow == UNCHANGED <<acted, effects>> /\ Heartbeat(clock)
TickNow == UNCHANGED <<acted, effects>> /\ Tick(clock)

NextGate == DoActionStep \/ TryWakeStep \/ HeartbeatNow \/ TickNow

SpecGate == Init /\ [][NextGate]_vars

\* ------------------------------------------------------------------------
\* The timers alone: nobody touches the page; the tick fires every second,
\* the decay interval and the heartbeat fire at the second they are due
\* ------------------------------------------------------------------------
TickSecond ==
  /\ decayAt > clock
  /\ clock + TICK_MS <= MaxIdleSecond * 1000
  /\ Tick(clock + TICK_MS)
  /\ UNCHANGED <<acted, effects>>
DecayNow == UNCHANGED <<acted, effects>> /\ Decay(clock)

NextIdle == TickSecond \/ DecayNow \/ HeartbeatNow

SpecIdle == Init /\ [][NextIdle]_vars

\* ------------------------------------------------------------------------
\* Needs: the decay interval fires every 15 s, the tick runs at each of
\* these instants, and the user acts at most MaxActions times, at instants
\* that are ActPeriod apart
\* ------------------------------------------------------------------------
ActPeriod == 3 * MINUTE_MS

DecayDue ==
  /\ now = clock
  /\ decayAt <= MaxDecays * DECAY_MS
  /\ Decay(decayAt)
  /\ UNCHANGED <<acted, effects>>
ActionNow ==
  /\ clock % ActPeriod = 0
  /\ acted < MaxActions
  /\ acted' = acted + 1
  /\ \E kind \in Kinds : DoAction(kind, clock)
  /\ UNCHANGED effects

NextNeeds == DecayDue \/ ActionNow \/ TickNow

SpecNeeds == Init /\ [][NextNeeds]_vars

\* ------------------------------------------------------------------------
\* A store written by somebody else: the page is mounted over items that are
\* missing or are not what saveMinutes and setQuietUntil write; the two
\* exported functions are called directly and through doAction and tryWake
\* ------------------------------------------------------------------------
StoresOfOthers ==
  [actionMinutes : {Absent, Garbled, OtherJson}, quietUntil : {Absent, Garbled}]

InitStored ==
  /\ clock = 0
  /\ now = 0
  /\ lastInput = 0
  /\ petState = "AWAKE"
  /\ needs = [hunger |-> INITIAL_NEED, cleanliness |-> INITIAL_NEED,
              playfulness |-> INITIAL_NEED, affection |-> INITIAL_NEED]
  /\ sleepUntil = Null
  /\ localStorage \in StoresOfOthers
  /\ quietUntil = isQuietActive(localStorage, 0).until
  /\ decayAt = DECAY_MS
  /\ ret = [op |-> "mount", kind |-> "none", t |-> 0, blocked |-> FALSE,
            quietUntil |-> Null, activeInWindow |-> 0, before |-> Null,
            sizeBefore |-> 0, had |-> FALSE, from |-> "AWAKE", threw |-> FALSE]
  /\ acted = 0
  /\ effects = NoEffects

StoredTimes == {t \in CallTimes : nowMinute(t) <= MaxStoredMinute}

RegisterStored ==
  UNCHANGED <<acted, effects>> /\ \E t \in StoredTimes : RegisterActionCall(t)
IsQuietStored ==
  UNCHANGED <<acted, effects>> /\ \E t \in StoredTimes : IsQuietActiveCall(t)
DoActionStored ==
  UNCHANGED <<acted, effects>> /\ \E t \in StoredTimes : DoAction("FEED", t)
TryWakeStored == UNCHANGED <<acted, effects>> /\ \E t \in StoredTimes : TryWake(t)

NextStored == RegisterStored \/ IsQuietStored \/ DoActionStored \/ TryWakeStored

SpecStored == InitStored /\ [][NextStored]_vars

\* ------------------------------------------------------------------------
\* The timers render by render: the tick commits the new `now`, then React
\* runs the effects whose dependencies changed, one commit at a time, before
\* the next event is handled; the user touches the page (pointer, key,
\* visibility) at most MaxActions times, at instants ActPeriod apart.  The
\* intervals keep firing (weak fairness).
\* ------------------------------------------------------------------------
\* setNow(Date.now()) of the 1 s interval, up to its commit
TickCommit(t) ==
  /\ t # now
  /\ clock' = t
  /\ now' = t
  /\ effects' = [idle |-> TRUE, wake |-> TRUE]
  /\ ret' = Ret("tick", "none", t, FALSE, Null, 0)
  /\ UNCHANGED <<lastInput, petState, needs, sleepUntil, quietUntil, decayAt,
                 localStorage>>

\* the values Math.random() may return in the waiting effects, if it is called
EffectDraws ==
  IF effects.idle /\ ToSleep(petState, now - lastInput) THEN Randoms ELSE {0}

\* variant: the auto-wake resets the idle clock
RunEffectsResetsIdle ==
  /\ effects # NoEffects
  /\ \E n \in EffectDraws :
       LET s1 == Pass(React, lastInput, clock, n, effects.idle, effects.wake)
       IN /\ petState' = s1.petState
          /\ sleepUntil' = s1.sleepUntil
          /\ lastInput' = IF petState = "SLEEPING" /\ s1.petState = "AWAKE"
                          THEN clock ELSE lastInput
          /\ effects' = [idle |-> s1.petState # petState,
                         wake |-> s1.sleepUntil # sleepUntil]
          /\ decayAt' = IF s1.petState # petState THEN clock + DECAY_MS ELSE decayAt
  /\ ret' = Ret("effects", "none", clock, FALSE, Null, 0)
  /\ UNCHANGED <<clock, now, needs, quietUntil, localStorage>>

\* the waiting effects run and their updates are committed; the effects that
\* depend on what changed wait next
RunEffects ==
  /\ effects # NoEffects
  /\ \E n \in EffectDraws :
       LET s1 == Pass(React, lastInput, clock, n, effects.idle, effects.wake)
       IN /\ petState' = s1.petState
          /\ sleepUntil' = s1.sleepUntil
          /\ effects' = [idle |-> s1.petState # petState,
                         wake |-> s1.sleepUntil # sleepUntil]
          /\ decayAt' = IF s1.petState # petState THEN clock + DECAY_MS ELSE decayAt
  /\ ret' = Ret("effects", "none", clock, FALSE, Null, 0)
  /\ UNCHANGED <<clock, now, lastInput, needs, quietUntil, localStorage>>

TickCommitSecond ==
  /\ effects = NoEffects
  /\ decayAt > clock
  /\ clock + TICK_MS <= MaxIdleSecond * 1000
  /\ TickCommit(clock + TICK_MS)
  /\ UNCHANGED acted
RunEffectsStep == UNCHANGED acted /\ RunEffects
DecayIdle == effects = NoEffects /\ Decay(clock) /\ UNCHANGED <<acted, effects>>
InputNow ==
  /\ effects = NoEffects
  /\ clock % ActPeriod = 0
  /\ acted < MaxActions
  /\ acted' = acted + 1
  /\ Input(clock)
  /\ UNCHANGED effects

NextRender == TickCommitSecond \/ RunEffectsStep \/ DecayIdle \/ InputNow

SpecRender ==
  /\ Init /\ [][NextRender]_vars
  /\ WF_vars(TickCommitSecond) /\ WF_vars(RunEffectsStep) /\ WF_vars(DecayIdle)

\* ------------------------------------------------------------------------
\* The timers after a reload: the page is mounted at the instant ReloadAt,
\* over an empty store or over the store the 40th action of minute 39 left
\* (the window 0..39 and the deadline it started); then only the intervals
\* fire, render by render
\* ------------------------------------------------------------------------
ReloadAt == (ACTIVE_PLAY_LIMIT - 1) * MINUTE_MS

EmptyStore == [actionMinutes |-> Absent, quietUntil |-> Absent]
CooldownStore ==
  registerAction(
    saveMinutes(EmptyStore, [i \in 1..(ACTIVE_PLAY_LIMIT - 1) |-> i - 1]),
    ReloadAt).ls

InitReload ==
  /\ clock = ReloadAt
  /\ now = ReloadAt
  /\ lastInput = ReloadAt
  /\ petState = "AWAKE"
  /\ needs = [hunger |-> INITIAL_NEED, cleanliness |-> INITIAL_NEED,
              playfulness |-> INITIAL_NEED, affection |-> INITIAL_NEED]
  /\ sleepUntil = Null
  /\ localStorage \in {EmptyStore, CooldownStore}
  /\ quietUntil = isQuietActive(localStorage, ReloadAt).until
  /\ decayAt = ReloadAt + DECAY_MS
  /\ ret = [op |-> "mount", kind |-> "none", t |-> ReloadAt, blocked |-> FALSE,
            quietUntil |-> Null, activeInWindow |-> 0, before |-> Null,
            sizeBefore |-> 0, had |-> FALSE, from |-> "AWAKE", threw |-> FALSE]
  /\ acted = 0
  /\ effects = NoEffects

TickCommitReload ==
  /\ effects = NoEffects
  /\ decayAt > clock
  /\ clock + TICK_MS <= ReloadAt + MaxIdleSecond * 1000
  /\ TickCommit(clock + TICK_MS)
  /\ UNCHANGED acted
HeartbeatIdle ==
  effects = NoEffects /\ Heartbeat(clock) /\ UNCHANGED <<acted, effects>>

NextReload == TickCommitReload \/ RunEffectsStep \/ DecayIdle \/ HeartbeatIdle

SpecReload == InitReload /\ [][NextReload]_vars

\* ------------------------------------------------------------------------
\* After a reload with long pauses: over the empty store or the store the
\* 40th action of minute 39 left, the two exported functions are called and
\* the Feed button is clicked at the same instant, a millisecond later, or
\* about a cooldown later (a millisecond less, exactly, a minute or three
\* minutes more)
\* ------------------------------------------------------------------------
LapseSteps ==
  {0, 1,
   QUIET_BLOCK_MIN * MINUTE_MS - 1, QUIET_BLOCK_MIN * MINUTE_MS,
   (QUIET_BLOCK_MIN + 1) * MINUTE_MS, (QUIET_BLOCK_MIN + 3) * MINUTE_MS}
LapseTimes ==
  {t \in {clock + d : d \in LapseSteps} :
     /\ (t % MINUTE_MS) \in Offsets
     /\ nowMinute(t) <= MaxMinute + QUIET_BLOCK_MIN + 3}

RegisterLapse ==
  UNCHANGED <<acted, effects>> /\ \E t \in LapseTimes : RegisterActionCall(t)
IsQuietLapse ==
  UNCHANGED <<acted, effects>> /\ \E t \in LapseTimes : IsQuietActiveCall(t)
DoActionLapse ==
  UNCHANGED <<acted, effects>> /\ \E t \in LapseTimes : DoAction("FEED", t)

NextLapse == RegisterLapse \/ IsQuietLapse \/ DoActionLapse

SpecLapse == InitReload /\ [][NextLapse]_vars

\* ------------------------------------------------------------------------
\* The page with throttled timers, one React commit at a time: the tick
\* interval fires one, three or ten minutes after the last event, and every
\* third minute the user may click Feed, Play or the wake button, when they
\* are rendered and enabled, or touch the page
\* ------------------------------------------------------------------------
PageGaps == {MINUTE_MS, 3 * MINUTE_MS, 10 * MINUTE_MS}
PageKinds == {"FEED", "PLAY"}

\* the disabled attribute of the buttons
quietActive == Truthy(quietUntil) /\ clock < quietUntil

TickCommitPage ==
  /\ effects = NoEffects
  /\ \E g \in PageGaps :
       /\ clock + g <= MaxIdleSecond * 1000
       /\ TickCommit(clock + g)
  /\ UNCHANGED acted
ActionPage ==
  /\ effects = NoEffects
  /\ clock % ActPeriod = 0
  /\ ~quietActive
  /\ acted < MaxActions
  /\ acted' = acted + 1
  /\ \E kind \in PageKinds :
       /\ kind = "PLAY" => petState # "SLEEPING"
       /\ DoAction(kind, clock)
  /\ UNCHANGED effects
WakePage ==
  /\ effects = NoEffects
  /\ clock % ActPeriod = 0
  /\ petState = "SLEEPING"
  /\ ~quietActive
  /\ acted < MaxActions
  /\ acted' = acted + 1
  /\ TryWake(clock)
  /\ UNCHANGED effects
InputPage ==
  /\ effects = NoEffects
  /\ clock % ActPeriod = 0
  /\ acted < MaxActions
  /\ acted' = acted + 1
  /\ Input(clock)
  /\ UNCHANGED effects

NextPage ==
  TickCommitPage \/ RunEffectsStep \/ ActionPage \/ WakePage \/ InputPage

SpecPage ==
  /\ Init /\ [][NextPage]_vars
  /\ WF_vars(TickCommitPage) /\ WF_vars(RunEffectsStep)

\* ------------------------------------------------------------------------
\* Properties
\* ------------------------------------------------------------------------
Range(sq) == {sq[i] : i \in 1..Len(sq)}
Window == loadMinutes(localStorage)
Attempts == {"doAction", "tryWake"}

\* C1: an attempt (doAction of any kind, tryWake) made while a persisted
\* deadline D exists and the time of the attempt is before D leaves the
\* needs, the pet state, the idle clock, the auto-wake deadline and both
\* persisted items unchanged, and reports blocked with D.
C1_BlockedAttemptChangesNothing ==
  [][LET D == getQuietUntil(localStorage)
     IN (Truthy(D) /\ clock' < D /\ ret'.op \in Attempts)
        => /\ UNCHANGED <<needs, petState, lastInput, sleepUntil, localStorage>>
           /\ ret'.blocked
           /\ ret'.quietUntil = D]_vars

C1_Witness ==
  /\ ret.op = "tryWake"
  /\ ret.blocked
  /\ petState = "SLEEPING"
  /\ Truthy(sleepUntil)
  /\ ret.t < getQuietUntil(localStorage)

\* C2: before 40 distinct minutes can have been registered no deadline is
\* stored or returned; a registerAction call at time t that finds no
\* unexpired deadline returns null and stores none when the window it
\* persisted holds fewer than 40 minutes, and returns and persists exactly
\* t + 20 minutes when it holds 40 or more.
C2_FortiethMinuteStartsCooldown ==
  /\ [](nowMinute(clock) < 39
        => localStorage.quietUntil = Absent /\ ret.quietUntil = Null)
  /\ [][LET D == getQuietUntil(localStorage)
            t == clock'
        IN (ret'.op = "registerAction" /\ (~Truthy(D) \/ t >= D))
           => IF ret'.activeInWindow >= 40
              THEN /\ ret'.quietUntil = t + 20 * 60 * 1000
                   /\ localStorage'.quietUntil = StoredNumber(t + 20 * 60 * 1000)
              ELSE /\ ret'.quietUntil = Null
                   /\ localStorage'.quietUntil = Absent]_vars

C2_Witness ==
  /\ ret.op = "registerAction"
  /\ nowMinute(ret.t) = 39
  /\ Window = [i \in 1..40 |-> i - 1]
  /\ ret.sizeBefore = 39
  /\ ret.activeInWindow = 40
  /\ ret.quietUntil = ret.t + 1200000
  /\ getQuietUntil(localStorage) = ret.t + 1200000

\* C3: while a persisted deadline D lies in the future of an operation
\* (the operation runs at a time before D), the operation leaves D stored.
C3_CooldownNeverExtended ==
  [][LET D == getQuietUntil(localStorage)
     IN (Truthy(D) /\ clock' < D) => getQuietUntil(localStorage') = D]_vars

C3_Witness ==
  /\ ret.op = "registerAction"
  /\ Truthy(ret.before)
  /\ ret.t < ret.before
  /\ ret.t > ret.before - 1200000
  /\ ~ret.had
  /\ ret.activeInWindow > 40
  /\ getQuietUntil(localStorage) = ret.before

\* C4: the count of active minutes that registerAction returns to an
\* admitted doAction or tryWake never exceeds the budget of 40.
C4_BudgetNeverExceeded ==
  (ret.op \in Attempts /\ ~ret.blocked) => ret.activeInWindow <= 40

\* C5: a registerAction call in a minute the persisted window already holds
\* leaves the set of stored minutes and their number unchanged, and the
\* persisted window never holds a minute twice.
C5_SameMinuteCountsOnce ==
  /\ [](Cardinality(Range(Window)) = Len(Window))
  /\ [][(ret'.op = "registerAction"
         /\ nowMinute(clock') \in Range(loadMinutes(localStorage)))
        => /\ Range(loadMinutes(localStorage')) = Range(loadMinutes(localStorage))
           /\ Len(loadMinutes(localStorage')) = Len(loadMinutes(localStorage))]_vars

C5_Witness ==
  /\ ret.op = "registerAction"
  /\ ret.had
  /\ ret.sizeBefore = ret.activeInWindow
  /\ ret.sizeBefore > 1
  /\ ret.t % MINUTE_MS = 1

\* C6: after registerAction at minute M the persisted window holds M, holds
\* no minute below M - 59 and still holds every minute >= M - 59 it held
\* before; the persisted window never has more than 60 entries.
C6_PruningKeepsTrailingHour ==
  /\ [](Len(Window) <= 60)
  /\ [][ret'.op = "registerAction"
        => LET M == nowMinute(clock')
               old == Range(loadMinutes(localStorage))
               new == Range(loadMinutes(localStorage'))
           IN /\ M \in new
              /\ new \subseteq {m \in new : m >= M - 59}
              /\ {m \in old : m >= M - 59} \subseteq new]_vars

C6_Witness ==
  /\ ret.op = "registerAction"
  /\ ~ret.had
  /\ ret.sizeBefore = 60
  /\ ret.activeInWindow = 60
  /\ Window[1] = nowMinute(ret.t) - 59

\* C7 as stated: an isQuietActive call changes neither persisted item.
C7_CheckNeverWrites ==
  [][ret'.op = "isQuietActive" => localStorage' = localStorage]_vars

\* C7 amended: an isQuietActive call never changes the persisted window; it
\* removes the persisted deadline when the call's time has reached it and
\* leaves the deadline item as it is otherwise.
C7_CheckOnlyRemovesExpired ==
  [][ret'.op = "isQuietActive"
     => LET D == getQuietUntil(localStorage)
        IN /\ localStorage'.actionMinutes = localStorage.actionMinutes
           /\ IF Truthy(D) /\ clock' >= D
              THEN localStorage'.quietUntil = Absent
              ELSE localStorage'.quietUntil = localStorage.quietUntil]_vars

C7_Witness ==
  /\ ret.op = "isQuietActive"
  /\ Truthy(ret.before)
  /\ ret.t = ret.before
  /\ localStorage.quietUntil = Absent
  /\ Len(Window) >= 40

\* C8: isQuietActive at time t with persisted deadline D reports blocked
\* with D exactly when t < D; otherwise (t >= D, or nothing stored) it
\* reports admitted with no deadline and no deadline remains stored.
C8_AdmissionDecision ==
  [][ret'.op = "isQuietActive"
     => LET D == getQuietUntil(localStorage)
            t == clock'
        IN IF Truthy(D) /\ t < D
           THEN ret'.blocked /\ ret'.quietUntil = D /\ getQuietUntil(localStorage') = D
           ELSE ~ret'.blocked /\ ret'.quietUntil = Null
                /\ localStorage'.quietUntil = Absent]_vars

C8_Witness ==
  /\ ret.op = "isQuietActive"
  /\ Truthy(ret.before)
  /\ ret.t = ret.before + 1
  /\ ~ret.blocked
  /\ ret.quietUntil = Null
  /\ localStorage.quietUntil = Absent

\* C9: each of the four needs is an integer from 0 to 100 in every state
\* reached by decay ticks and admitted actions from {70, 70, 70, 70}.
C9_NeedsInRange ==
  \A k \in {"hunger", "cleanliness", "playfulness", "affection"} :
    needs[k] \in 0..100

C9_Witness ==
  /\ ret.op = "decay"
  /\ petState # "SLEEPING"
  /\ clock >= 71 * 15000
  /\ acted >= 1
  /\ \E k \in DOMAIN needs : needs[k] = 0
  /\ \E k \in DOMAIN needs : needs[k] > 0

\* C10: with no activity and a tick every second, the pet is AWAKE before
\* 8 minutes, DROWSY from 8 minutes to before 10 minutes, and SLEEPING with
\* a pending auto-wake deadline from 10 minutes on.
C10_IdleTimeline ==
  /\ lastInput = 0
  /\ (clock < 480000 => petState = "AWAKE")
  /\ (480000 <= clock /\ clock < 600000 => petState = "DROWSY")
  /\ (600000 <= clock => petState = "SLEEPING" /\ Truthy(sleepUntil))

C10_Witness ==
  /\ ret.op = "tick"
  /\ clock = 600000
  /\ petState = "SLEEPING"
  /\ sleepUntil >= 900000

\* C11: whenever the pet enters SLEEPING at time s (from another state, or
\* again right after an auto-wake), the auto-wake deadline stored with it
\* lies in [s + 5 min, s + 12 min).
C11_AutoWakeBound ==
  [][(petState' = "SLEEPING" /\ (petState # "SLEEPING" \/ sleepUntil' # sleepUntil))
     => /\ sleepUntil' >= clock' + 5 * 60 * 1000
        /\ sleepUntil' < clock' + 12 * 60 * 1000]_vars

C11_Witness ==
  /\ ret.op = "tick"
  /\ ret.from = "DROWSY"
  /\ petState = "SLEEPING"
  /\ clock = 600000
  /\ sleepUntil > clock + 719000

\* C12: a doAction of any kind that passes the gate, from any pet state,
\* leaves the pet AWAKE with no auto-wake deadline and the idle clock at the
\* time of the action.
C12_AdmittedActionWakes ==
  [][(ret'.op = "doAction" /\ ~ret'.blocked)
     => /\ petState' = "AWAKE"
        /\ sleepUntil' = Null
        /\ lastInput' = clock']_vars

C12_Witness ==
  /\ ret.op = "doAction"
  /\ ~ret.blocked
  /\ ret.from = "SLEEPING"
  /\ petState = "AWAKE"
  /\ sleepUntil = Null
  /\ lastInput = ret.t

\* C13: doAction('PLAY') called while the pet is SLEEPING leaves the needs,
\* the pet state, the auto-wake deadline and the idle clock unchanged.
C13_PlayWhileSleepingIsNoOp ==
  [][(ret'.op = "doAction" /\ ret'.kind = "PLAY" /\ petState = "SLEEPING")
     => UNCHANGED <<needs, petState, sleepUntil, lastInput>>]_vars

\* the need each kind of action raises, as the specification names it
NeedRaisedBy ==
  [FEED |-> "hunger", GROOM |-> "cleanliness", PLAY |-> "playfulness",
   CUDDLE |-> "affection"]

\* C14: an admitted action raises the one need of its kind to
\* min(100, old + 15) and leaves the other three needs as they were.
C14_OneNeedRaised ==
  [][(ret'.op = "doAction" /\ ~ret'.blocked)
     => LET k == NeedRaisedBy[ret'.kind]
        IN /\ needs'[k] = (IF needs[k] + 15 > 100 THEN 100 ELSE needs[k] + 15)
           /\ \A o \in DOMAIN needs \ {k} : needs'[o] = needs[o]]_vars

C14_Witness ==
  /\ ret.op = "doAction"
  /\ ret.kind = "FEED"
  /\ ~ret.blocked
  /\ clock = 0
  /\ acted = 1
  /\ needs = [hunger |-> 85, cleanliness |-> 70, playfulness |-> 70,
              affection |-> 70]

\* C15: a decay tick leaves the needs unchanged when the pet is SLEEPING and
\* sets each need to max(0, old - 1) when it is AWAKE or DROWSY; no step
\* that starts and ends in SLEEPING changes a need.
C15_DecayOnlyWhenNotSleeping ==
  /\ [][ret'.op = "decay"
        => IF petState = "SLEEPING" THEN needs' = needs
           ELSE /\ petState \in {"AWAKE", "DROWSY"}
                /\ \A k \in DOMAIN needs :
                     needs'[k] = (IF needs[k] - 1 < 0 THEN 0 ELSE needs[k] - 1)]_vars
  /\ [][(petState = "SLEEPING" /\ petState' = "SLEEPING") => needs' = needs]_vars

C15_Witness ==
  /\ ret.op = "decay"
  /\ ret.from = "SLEEPING"
  /\ petState = "SLEEPING"
  /\ clock > 600000
  /\ needs.hunger = 30

\* C16: a generic activity signal sets the idle clock to the time of the
\* signal and leaves the pet state, the needs, the auto-wake deadline and
\* both persisted items unchanged.
C16_InputOnlyResetsIdleClock ==
  [][ret'.op = "input"
     => /\ lastInput' = clock'
        /\ UNCHANGED <<petState, needs, sleepUntil, localStorage>>]_vars

C16_Witness ==
  /\ ret.op = "input"
  /\ ret.from = "SLEEPING"
  /\ petState = "SLEEPING"
  /\ Truthy(sleepUntil)
  /\ lastInput = clock
  /\ clock >= 720000

\* the idle and auto-wake transitions evaluated at time t from the React
\* state s, with Math.random() returning n / RandomDen
LifecycleTick(s, li, t, n) ==
  Settle([s EXCEPT !.now = t], li, t, n, TRUE, TRUE, FALSE, FALSE).state

\* the times at which the tick is evaluated: the next one and a late one
TickTimes == {clock + TICK_MS, clock + AUTO_WAKE_MAX_MS}

\* C17: from every reachable state with no effect waiting and at every tick
\* time, evaluating the idle and auto-wake transitions a second time at the
\* same time gives the pet state and the presence of an auto-wake deadline
\* that the first evaluation gave.
C17_TickIdempotent ==
  effects = NoEffects =>
    \A t \in TickTimes, n1 \in Randoms :
      LET once == LifecycleTick(React, lastInput, t, n1)
      IN \A n2 \in Randoms :
           LET twice == LifecycleTick(once, lastInput, t, n2)
           IN /\ twice.petState = once.petState
              /\ Truthy(twice.sleepUntil) = Truthy(once.sleepUntil)

C17_Witness ==
  /\ ret.op = "effects"
  /\ effects = NoEffects
  /\ petState = "SLEEPING"
  /\ clock >= 900000
  /\ sleepUntil >= clock + AUTO_WAKE_MIN_MS

\* the last instant of the timers scenario
Horizon == MaxIdleSecond * 1000

\* C19: with the intervals firing, a SLEEPING pet with auto-wake deadline W
\* and no user action stays SLEEPING until a tick at a time >= W, the
\* effects of the first such tick leave it AWAKE with the deadline cleared,
\* and so every SLEEPING pet whose deadline lies within the scenario
\* eventually is AWAKE with no deadline.
C19_AutoWakeHappens ==
  /\ [][(petState = "SLEEPING" /\ petState' # "SLEEPING")
        => /\ ret'.op = "effects"
           /\ clock' >= sleepUntil
           /\ petState' = "AWAKE"
           /\ sleepUntil' = Null]_vars
  /\ [][(petState = "SLEEPING" /\ Truthy(sleepUntil) /\ clock >= sleepUntil
         /\ effects.wake /\ ret'.op = "effects")
        => (petState' = "AWAKE" /\ sleepUntil' = Null)]_vars
  /\ []((petState = "SLEEPING" /\ sleepUntil <= Horizon)
        => <>(petState = "AWAKE" /\ sleepUntil = Null))

C19_Witness ==
  /\ ret.op = "effects"
  /\ ret.from = "SLEEPING"
  /\ petState = "AWAKE"
  /\ sleepUntil = Null
  /\ now - lastInput >= IDLE_TO_DROWSY_MS + DROWSY_TO_SLEEP_MS

\* the store with every item that is not what the program writes removed
Defaulted(ls) ==
  [actionMinutes |-> IF ls.actionMinutes.kind = "array" THEN ls.actionMinutes
                     ELSE Absent,
   quietUntil |-> IF ls.quietUntil.kind = "num" THEN ls.quietUntil ELSE Absent]

\* the same deadline, or no deadline (null, NaN) in both
SameDeadline(a, b) == IF Truthy(a) \/ Truthy(b) THEN a = b ELSE TRUE

\* C18: over any stored items, missing or malformed, registerAction and
\* isQuietActive do not throw and return, and leave as the window, what
\* they would over a store with the malformed items missing.
C18_MalformedStoreIsDefaulted ==
  [][ret'.op \in {"registerAction", "isQuietActive"}
     => /\ ~ret'.threw
        /\ IF ret'.op = "registerAction"
           THEN LET r == registerAction(Defaulted(localStorage), clock')
                IN /\ ret'.activeInWindow = r.activeInWindow
                   /\ SameDeadline(ret'.quietUntil, r.quietUntil)
                   /\ loadMinutes(localStorage') = loadMinutes(r.ls)
           ELSE LET r == isQuietActive(Defaulted(localStorage), clock')
                IN /\ ret'.blocked = r.active
                   /\ SameDeadline(ret'.quietUntil, r.until)]_vars

\* a cooldown is stored and has not ended
CooldownActive ==
  Truthy(getQuietUntil(localStorage)) /\ clock < getQuietUntil(localStorage)

\* C20: with a cooldown active or not, a decay tick lowers each need of an
\* AWAKE or DROWSY pet by 1 (not below 0); once the tick of an instant and
\* its effects have run, the pet is AWAKE below 8 minutes of idle time,
\* DROWSY from 8 to below 10 minutes and SLEEPING with a pending deadline
\* from 10 minutes on; and the effects of a tick at or after the deadline
\* wake the pet.
C20_HeartbeatsNotGated ==
  /\ [][(ret'.op = "decay" /\ petState # "SLEEPING")
        => \A k \in DOMAIN needs :
             needs'[k] = (IF needs[k] - 1 < 0 THEN 0 ELSE needs[k] - 1)]_vars
  /\ []((effects = NoEffects /\ now = clock)
        => LET since == now - lastInput
           IN /\ since < 480000 => petState = "AWAKE"
              /\ (480000 <= since /\ since < 600000) => petState = "DROWSY"
              /\ 600000 <= since
                   => (petState = "SLEEPING" /\ Truthy(sleepUntil)
                       /\ sleepUntil > clock))
  /\ [][(petState = "SLEEPING" /\ Truthy(sleepUntil) /\ clock >= sleepUntil
         /\ ret.op = "tick" /\ ret'.op = "effects")
        => (petState' = "AWAKE" /\ sleepUntil' = Null)]_vars

C20_Witness ==
  /\ CooldownActive
  /\ quietUntil = getQuietUntil(localStorage)
  /\ ret.op = "effects"
  /\ ret.from = "SLEEPING"
  /\ petState = "AWAKE"
  /\ sleepUntil = Null
  /\ needs.hunger < INITIAL_NEED - 30

\* C21: a tryWake that passes the gate leaves the pet AWAKE with no
\* auto-wake deadline, the idle clock at the time of the call and the needs
\* as they were; the minute of the call is in the persisted window, and
\* when the count it reaches is 40 or more a deadline 20 minutes after the
\* call is persisted.
C21_ManualWakeIsGatedAction ==
  [][(ret'.op = "tryWake" /\ ~ret'.blocked)
     => /\ petState' = "AWAKE"
        /\ sleepUntil' = Null
        /\ lastInput' = clock'
        /\ needs' = needs
        /\ nowMinute(clock') \in Range(loadMinutes(localStorage'))
        /\ ret'.activeInWindow = Len(loadMinutes(localStorage'))
        /\ IF ret'.activeInWindow >= 40
           THEN getQuietUntil(localStorage') = clock' + 20 * 60 * 1000
           ELSE localStorage'.quietUntil = Absent]_vars

C21_Witness ==
  /\ ret.op = "tryWake"
  /\ ~ret.blocked
  /\ ret.from = "SLEEPING"
  /\ petState = "AWAKE"
  /\ sleepUntil = Null
  /\ ~ret.had
  /\ ret.activeInWindow >= 40
  /\ getQuietUntil(localStorage) = ret.t + 1200000

\* C22: when registerAction returns at time t, the deadline it returns is
\* the one left in the store (none in both, or the same timestamp), a
\* returned deadline is later than t, a stored deadline that t has reached
\* is removed when the count is below 40, and the returned count is the
\* length of the window just persisted.
C22_ReturnMatchesStore ==
  [][ret'.op = "registerAction"
     => LET D == getQuietUntil(localStorage)
            t == clock'
        IN /\ ret'.quietUntil = getQuietUntil(localStorage')
           /\ (ret'.quietUntil = Null) = (localStorage'.quietUntil = Absent)
           /\ ret'.quietUntil # Null => ret'.quietUntil > t
           /\ (Truthy(D) /\ t >= D /\ ret'.activeInWindow < 40)
                => localStorage'.quietUntil = Absent
           /\ ret'.activeInWindow = Len(loadMinutes(localStorage'))]_vars

C22_Witness ==
  /\ ret.op = "registerAction"
  /\ Truthy(ret.before)
  /\ ret.t >= ret.before
  /\ ret.activeInWindow < 40
  /\ ret.quietUntil = Null
  /\ localStorage.quietUntil = Absent

\* C23 as stated: in every reachable state every minute m of the persisted
\* window satisfies currentMinute - 59 <= m <= currentMinute.
C23_WindowAlwaysTrailing ==
  \A m \in Range(Window) :
    nowMinute(clock) - (HOUR_MINUTES - 1) <= m /\ m <= nowMinute(clock)

\* C23: right after every registerAction call made in minute M the persisted
\* window holds only minutes m with M - 59 <= m <= M; the minutes that age
\* out between two calls stay in the store until the next registerAction,
\* because isQuietActive neither reads nor purges the window.
C23_WindowTrailingAfterRegister ==
  [][/\ ret'.op = "registerAction"
        => \A m \in Range(loadMinutes(localStorage')) :
             /\ nowMinute(clock') - (HOUR_MINUTES - 1) <= m
             /\ m <= nowMinute(clock')
     /\ ret'.op = "isQuietActive"
        => localStorage'.actionMinutes = localStorage.actionMinutes]_vars

C23_Witness ==
  /\ ret.op = "registerAction"
  /\ ret.sizeBefore = 40
  /\ nowMinute(ret.t) = 62
  /\ Window = [i \in 1..38 |-> IF i <= 37 THEN i + 2 ELSE 62]

\* C24: a step raises a need, or a doAction or tryWake run takes the pet out
\* of DROWSY or SLEEPING, only if it is a doAction or tryWake run in which
\* isQuietActive answered not blocked and registerAction left the current
\* minute in the persisted window.
C24_GateBeforeEveryAction ==
  [][(\/ \E k \in DOMAIN needs : needs'[k] > needs[k]
      \/ /\ ret'.op \in Attempts
         /\ petState # "AWAKE"
         /\ petState' = "AWAKE")
     => /\ ret'.op \in Attempts
        /\ ~ret'.blocked
        /\ ~isQuietActive(localStorage, clock').active
        /\ nowMinute(clock') \in Range(loadMinutes(localStorage'))
        /\ ret'.activeInWindow = Len(loadMinutes(localStorage'))]_vars

C24_Witness ==
  /\ ret.op = "doAction"
  /\ ret.kind = "CUDDLE"
  /\ ~ret.blocked
  /\ ret.from = "SLEEPING"
  /\ petState = "AWAKE"
  /\ needs.affection > INITIAL_NEED
  /\ ~ret.had
  /\ nowMinute(ret.t) \in Range(Window)

\* the last instant at which the throttled tick interval fires
PageEnd == ((MaxIdleSecond * 1000) \div MINUTE_MS) * MINUTE_MS

\* C25: every change of pet state is a transition of the table. AWAKE
\* becomes DROWSY only in the effects of a tick with 8 minutes or more of
\* idle time; SLEEPING is entered only in such effects with 10 minutes or
\* more; SLEEPING becomes AWAKE only by the auto-wake effect with the
\* deadline reached, by an admitted tryWake or by an admitted doAction;
\* DROWSY becomes AWAKE only by an admitted doAction; SLEEPING never becomes
\* DROWSY in one step; and every state is left again unless the instant
\* that ends it lies after the last tick.
C25_OnlyTableTransitions ==
  /\ [][petState' # petState
        => /\ petState' = "DROWSY"
              => /\ petState = "AWAKE"
                 /\ ret'.op = "effects"
                 /\ now - lastInput >= IDLE_TO_DROWSY_MS
           /\ petState' = "SLEEPING"
              => /\ ret'.op = "effects"
                 /\ now - lastInput >= IDLE_TO_DROWSY_MS + DROWSY_TO_SLEEP_MS
           /\ (petState = "SLEEPING" /\ petState' = "AWAKE")
              => \/ ret'.op = "effects" /\ WakeDue(sleepUntil, clock)
                 \/ ret'.op \in Attempts /\ ~ret'.blocked
           /\ (petState = "DROWSY" /\ petState' = "AWAKE")
              => ret'.op = "doAction" /\ ~ret'.blocked]_vars
  /\ [](petState = "AWAKE"
        => <>(petState # "AWAKE" \/ lastInput + IDLE_TO_DROWSY_MS > PageEnd))
  /\ [](petState = "DROWSY"
        => <>(\/ petState # "DROWSY"
              \/ lastInput + IDLE_TO_DROWSY_MS + DROWSY_TO_SLEEP_MS > PageEnd))
  /\ [](petState = "SLEEPING"
        => <>(petState # "SLEEPING" \/ sleepUntil > PageEnd))

C25_Witness ==
  /\ ret.op = "effects"
  /\ ret.from = "AWAKE"
  /\ petState = "DROWSY"
  /\ acted >= 1
  /\ clock >= IDLE_TO_DROWSY_MS + DROWSY_TO_SLEEP_MS + AUTO_WAKE_MIN_MS
  /\ now - lastInput < IDLE_TO_DROWSY_MS + DROWSY_TO_SLEEP_MS

\* C26: in every state of the page with throttled timers, also when the
\* idle duration jumps from below 8 minutes to 10 minutes or more between
\* two ticks, an auto-wake deadline is stored if and only if the pet is
\* SLEEPING.
C26_DeadlineIffSleeping == Truthy(sleepUntil) <=> petState = "SLEEPING"

C26_Witness ==
  /\ ret.op = "effects"
  /\ ret.from = "AWAKE"
  /\ petState = "SLEEPING"
  /\ Truthy(sleepUntil)
  /\ now - lastInput >= IDLE_TO_DROWSY_MS + DROWSY_TO_SLEEP_MS
  /\ now - lastInput < IDLE_TO_DROWSY_MS + DROWSY_TO_SLEEP_MS + AUTO_WAKE_MIN_MS

\* C27: a step stores a cooldown deadline only if it is a registerAction
\* call, made in some minute M, that leaves a window of at least 40
\* distinct minutes, all within M - 59 .. M, and the deadline is 20 minutes
\* after the call; and isQuietActive reports blocked only while such a
\* stored deadline is ahead. So from an empty store a user with fewer than
\* 40 active minutes in every trailing hour is never blocked.
C27_DeadlineNeedsFortyMinutes ==
  [][/\ (/\ localStorage'.quietUntil # localStorage.quietUntil
         /\ localStorage'.quietUntil # Absent)
        => LET w == loadMinutes(localStorage')
               M == nowMinute(clock')
           IN /\ ret'.op = "registerAction"
              /\ Len(w) >= 40
              /\ Cardinality(Range(w)) = Len(w)
              /\ \A m \in Range(w) : M - 59 <= m /\ m <= M
              /\ ret'.activeInWindow = Len(w)
              /\ getQuietUntil(localStorage') = clock' + 20 * 60 * 1000
     /\ (ret'.op = "isQuietActive" /\ ret'.blocked)
        => /\ localStorage.quietUntil # Absent
           /\ clock' < getQuietUntil(localStorage)
     /\ (localStorage.quietUntil = Absent /\ Len(Window) < 39)
        => localStorage'.quietUntil = Absent]_vars

C27_Witness ==
  /\ ret.op = "registerAction"
  /\ ret.before = Null
  /\ ret.sizeBefore = 39
  /\ ret.activeInWindow = 40
  /\ nowMinute(ret.t) > 39
  /\ getQuietUntil(localStorage) = ret.t + 20 * 60 * 1000

\* the pet was woken by the auto-wake effect in the last commit
JustAutoWoken ==
  ret.op = "effects" /\ ret.from = "SLEEPING" /\ petState = "AWAKE"

\* C28: the auto-wake leaves the idle clock as it is and the idle check
\* waiting; while the pet sleeps only an input signal lowers the idle
\* duration; the idle check after the auto-wake returns the pet to SLEEPING
\* with a newly drawn deadline when the idle duration is 10 minutes or
\* more, and leaves it out of SLEEPING only when an input signal during the
\* sleep made the idle duration less than that.
C28_AutoWakeKeepsIdleClock ==
  /\ [][(petState = "SLEEPING" /\ petState' = "AWAKE" /\ ret'.op = "effects")
        => /\ lastInput' = lastInput
           /\ now' = now
           /\ effects'.idle]_vars
  /\ [][(petState = "SLEEPING" /\ now' - lastInput' < now - lastInput)
        => ret'.op = "input"]_vars
  /\ [][JustAutoWoken
        => /\ ret'.op = "effects"
           /\ IF now - lastInput >= IDLE_TO_DROWSY_MS + DROWSY_TO_SLEEP_MS
              THEN /\ petState' = "SLEEPING"
                   /\ sleepUntil' >= clock + AUTO_WAKE_MIN_MS
                   /\ sleepUntil' < clock + AUTO_WAKE_MAX_MS
              ELSE /\ petState' # "SLEEPING"
                   /\ sleepUntil' = Null
                   /\ acted >= 1
                   /\ lastInput > 0]_vars

C28_Witness ==
  /\ ret.op = "effects"
  /\ ret.from = "AWAKE"
  /\ petState = "SLEEPING"
  /\ lastInput = 0
  /\ effects.wake
  /\ clock >= IDLE_TO_DROWSY_MS + DROWSY_TO_SLEEP_MS + AUTO_WAKE_MIN_MS
  /\ sleepUntil >= clock + AUTO_WAKE_MIN_MS

\* the window left by 40 active minutes in a row, the last one ReloadAt
FortyInARow == [i \in 1..ACTIVE_PLAY_LIMIT |-> i - 1]

\* C29: a cooldown ends by time alone. With the cooldown started at
\* ReloadAt and no admitted action since, the gate reports blocked at every
\* time before ReloadAt + 20 min and admitted at every time from then on;
\* in general the gate reports blocked exactly while the stored deadline is
\* ahead, no step moves a deadline that is still ahead, and a new deadline
\* is 20 minutes after the call that stores it.
C29_CooldownEndsByTime ==
  [][/\ (/\ ret'.op \in {"isQuietActive", "doAction"}
         /\ loadMinutes(localStorage) = FortyInARow)
        => /\ ret'.blocked <=> clock' < ReloadAt + 20 * 60 * 1000
           /\ ret'.blocked => ret'.quietUntil = ReloadAt + 20 * 60 * 1000
     /\ ret'.op \in {"isQuietActive", "doAction"}
        => (ret'.blocked <=> /\ localStorage.quietUntil # Absent
                             /\ clock' < getQuietUntil(localStorage))
     /\ (localStorage.quietUntil # Absent /\ clock' < getQuietUntil(localStorage))
        => localStorage'.quietUntil = localStorage.quietUntil
     /\ (/\ localStorage'.quietUntil # Absent
         /\ localStorage'.quietUntil # localStorage.quietUntil)
        => getQuietUntil(localStorage') = clock' + 20 * 60 * 1000]_vars

C29_Witness ==
  /\ ret.op = "isQuietActive"
  /\ ~ret.blocked
  /\ ret.before = ReloadAt + 20 * 60 * 1000
  /\ ret.t = ret.before
  /\ Window = FortyInARow
  /\ localStorage.quietUntil = Absent

\* the first admitted action after the cooldown of FortyInARow has expired
FirstAfterExpiry ==
  /\ loadMinutes(localStorage) = FortyInARow
  /\ clock' >= ReloadAt + 20 * 60 * 1000
  /\ ret'.op \in {"registerAction", "doAction"}
  /\ ~ret'.blocked

\* C30 as stated: after the cooldown started by 40 active minutes in a row
\* has expired, the first admitted action, whenever it comes, reaches a
\* count of 40 or more and starts a new 20-minute cooldown.
C30_NewCooldownAfterExpiry ==
  [][FirstAfterExpiry
     => /\ ret'.activeInWindow >= 40
        /\ getQuietUntil(localStorage') = clock' + 20 * 60 * 1000]_vars

\* C30: the expiry of a cooldown leaves the window as it is. After the
\* cooldown started by active minutes 0 .. 39 has expired at minute 59, the
\* first admitted action counts the earlier minutes still within the
\* trailing hour: in minute 59 or 60 the count is 41 or 40 and a new
\* 20-minute cooldown starts at once; from minute 61 on fewer than 39
\* earlier minutes are left, the count is below 40 and no cooldown starts.
C30_NewCooldownWithinTwoMinutes ==
  [][FirstAfterExpiry
     => LET M == nowMinute(clock')
        IN /\ ret'.activeInWindow = Len(loadMinutes(localStorage'))
           /\ ret'.activeInWindow = IF M <= 59 THEN 41 ELSE 100 - M
           /\ IF M <= 60
              THEN /\ ret'.activeInWindow >= 40
                   /\ getQuietUntil(localStorage') = clock' + 20 * 60 * 1000
                   /\ ret'.quietUntil = clock' + 20 * 60 * 1000
              ELSE /\ ret'.activeInWindow < 40
                   /\ localStorage'.quietUntil = Absent
                   /\ ret'.quietUntil = Null]_vars

C30_Witness ==
  /\ ret.op = "doAction"
  /\ ~ret.blocked
  /\ nowMinute(ret.t) = 60
  /\ ret.sizeBefore = 40
  /\ ret.activeInWindow = 40
  /\ Window = [i \in 1..40 |-> IF i <= 39 THEN i ELSE 60]
  /\ getQuietUntil(localStorage) = ret.t + 20 * 60 * 1000

====
